---- MODULE Spec2Model ----
(***************************************************************************)
(* Collaborative screenplay editor: the socket.io session relay            *)
(* (src/pages/api/socket.js), the Yjs socket provider                      *)
(* (src/lib/ySocketProvider.js) and the multi-threaded pagination of the   *)
(* editor component (src/unnamed/part_004).                                *)
(*                                                                         *)
(* Several specifications share the module: Spec and SpecMalformed (the     *)
(* relay), SpecClient, SpecClientFair, SpecPresence and SpecSends (one      *)
(* provider instance), SpecLink (the relay and one provider), SpecPager,    *)
(* SpecPagerFair, SpecEditor and SpecOverlap (one editor's pagination       *)
(* runs), SpecHeights and SpecColors (pure functions applied to bounded     *)
(* inputs). Each leaves the other subsystems' variables at their initial    *)
(* values.                                                                  *)
(***************************************************************************)
EXTENDS Integers, Sequences, FiniteSets, TLC

\* ------------------------------------------------------------------------
\* Values
\* ------------------------------------------------------------------------

\* JavaScript undefined / null
Undefined == "undefined"

\* socket ids of the connections the relay may see
Sessions == {"s1", "s2", "s3"}

\* documentId values a payload may carry
DocIds == {"doc1", "doc2"}

\* userId values a payload may carry ("" is the empty / falsy id)
UserIds == {"userA", ""}

\* userInfo objects a join-document payload may carry; the last one carries
\* a userId key of its own
UserInfos ==
  { [name |-> "A"],
    [name |-> "B", userId |-> ""] }

\* the documentId values of payloads that may lack a usable one, and every
\* documentId a payload may carry
MalformedDocIds == {"doc1", ""}

AllDocIds == DocIds \cup MalformedDocIds

\* opaque Yjs update payloads and awareness payloads
Updates == {"u1", "u2"}

AwarenessStates == {"a1"}

\* the userId values the editor may pass to joinDocument, their UTF-16 code
\* units, and the documentId the provider was constructed with
ClientUserIds == {"userA", "zoe"}

CharCodes == [userA |-> << 117, 115, 101, 114, 65 >>, zoe |-> << 122, 111, 101 >>]

ProviderDocId == "doc1"

\* the session ids of the peers a provider hears of, and the awareness
\* payloads they send
PeerIds == {"p1", "p2"}

PeerAwareness == {"a1", "a2"}

\* most calls of joinDocument
MaxJoinCalls == 2

\* the UTF-16 code units the userIds given to generateUserColor are made of
\* ('z' and the largest code unit), and the longest such userId
IdCodes == {122, 65535}

MaxIdLen == 7

\* most calls of updateAwareness
MaxAwarenessCalls == 1

\* Yjs updates one provider's document may produce or receive
Deltas == {"d1", "d2", "d3"}

\* the screenplay elements a document may hold: element type and length of
\* the text content (22 and 47 lines of 60 characters, and the empty text)
ElementKinds ==
  { [type |-> "action", len |-> 0],
    [type |-> "action", len |-> 1300],
    [type |-> "character", len |-> 1300],
    [type |-> "scene_heading", len |-> 1300],
    [type |-> "action", len |-> 2800] }

\* most elements in a document
MaxElems == 3

\* the attrs.type values a screenplay_element may carry, and the longest
\* text measured
ElementTypes ==
  {"scene_heading", "action", "character", "dialogue", "parenthetical", "transition",
   "shot"}

MaxTextLen == 125

\* most pagination workers the pool was created with
MaxWorkers == 3

\* all sequences over S of length at most n
RECURSIVE SeqsUpTo(_, _)
SeqsUpTo(S, n) ==
  IF n = 0 THEN { << >> }
  ELSE LET shorter == SeqsUpTo(S, n - 1)
       IN  shorter \cup { Append(q, x) : q \in { t \in shorter : Len(t) = n - 1 }, x \in S }

\* JavaScript truthiness of a string-or-undefined value
Truthy(v) == v # Undefined /\ v # ""

\* ------------------------------------------------------------------------
\* State
\* ------------------------------------------------------------------------
VARIABLES
  \* --- relay (src/pages/api/socket.js) ---
  conn,            \* per socket: "none" (not connected yet), "open", "closed"
  documentRooms,   \* Map documentId -> Set of socket ids
  userAwareness,   \* Map socket id -> { userId, ...userInfo }
  sockDocumentId,  \* socket.documentId
  sockUserId,      \* socket.userId
  ioRooms,         \* socket.io adapter rooms: room name -> sockets in it
  handled,         \* the message the relay handled last
  sent,            \* per socket: the events emitted to it by that handler
  \* --- provider (src/lib/ySocketProvider.js) ---
  connected,       \* this.connected
  ydoc,            \* the updates integrated in this.ydoc
  updateTimeout,   \* the throttle timer of setupYjsListeners (Undefined or "timer")
  timerUpdate,     \* the update captured by the pending timer's callback
  emitted,         \* the events the provider emitted on its socket, in order
  cEvent,          \* the provider event handled last (and how many events it emitted)
  windowDeltas,    \* history: the updates (and their origin) the listener saw
                   \* since the last throttle window opened
  socketClosed,    \* this.socket.disconnect() has been called
  persistence,     \* this.persistence: "open" or "destroyed"
  joinCalls,       \* history: how often joinDocument was called
  destroyCalls,    \* history: how often destroy was called (2: twice or more)
  awarenessCalls,  \* history: how often updateAwareness was called
  providerAwareness, \* this.awareness: Map socket id -> awareness payload
  onAwarenessUpdate, \* whether the caller has set this.onAwarenessUpdate
  delivered,       \* the relay event whose message the provider processed last
  leftSeen,        \* history: the socket ids whose user-left the provider processed
  \* --- editor pagination (src/unnamed/part_004) ---
  doc,             \* the screenplay_element nodes of view.state.doc, in order
  workers,         \* paginationWorkersRef.current.length
  pages,           \* the pages state (setPages)
  processingPages, \* the processingPages state
  requests,        \* the chunk posted to each worker by the run in flight
  workerPromises,  \* the promise of each dispatched chunk
  lastRun,         \* how the page list was published last
  cleanRuns,       \* how many runs in a row, up to the last, had no failed worker
  terminated,      \* the cleanups of the component have run (worker.terminate())
  \* --- a second updatePages call made while the first awaits its workers ---
  laterRequests,   \* the chunk it posted to each worker (kept after the run)
  laterPromises,   \* the promise of each of its chunks
  owed,            \* per worker: the answers it has still to post, in order
  laterOutcome,    \* "none", "pending", then "clean" or "failed" (a promise rejected)
  \* --- the two height heuristics applied to one element ---
  measured,        \* the element measured last and the height each heuristic gave
  \* --- generateUserColor applied to one userId ---
  colored          \* the userId coloured last, its hash, index and colour

relayVars ==
  << conn, documentRooms, userAwareness, sockDocumentId, sockUserId,
     ioRooms, handled, sent >>

lifeVars == << socketClosed, persistence, joinCalls, destroyCalls, awarenessCalls >>

linkVars == << delivered, leftSeen >>

presenceVars == << providerAwareness, onAwarenessUpdate, linkVars >>

clientVars ==
  << connected, ydoc, updateTimeout, timerUpdate, emitted, cEvent, windowDeltas,
     lifeVars, presenceVars >>

pagerVars ==
  << doc, workers, pages, processingPages, requests, workerPromises, lastRun,
     cleanRuns, terminated >>

overlapVars == << laterRequests, laterPromises, owed, laterOutcome >>

heightVars == << measured, colored >>

vars == << relayVars, clientVars, pagerVars, overlapVars, heightVars >>

notRelayVars == << clientVars, pagerVars, overlapVars, heightVars >>

notClientVars == << relayVars, pagerVars, overlapVars, heightVars >>

notPagerVars == << relayVars, clientVars, overlapVars, heightVars >>

\* ------------------------------------------------------------------------
\* Relay: src/pages/api/socket.js
\* ------------------------------------------------------------------------

NoSent == [s \in Sessions |-> << >>]

\* documentRooms.has(d)
HasRoom(d) == d \in DOMAIN documentRooms

\* the member set of the registry's room d (empty when there is no entry)
RoomSet(d) == IF HasRoom(d) THEN documentRooms[d] ELSE {}

\* (variant: the sender is not excluded)
ToRoomWithSender(s, members) == members

\* the recipients of socket.to(room).emit(...): every socket in the adapter's
\* room but the sender
ToRoom(s, members) == members \ {s}

\* socket.to(room).emit(msg)
BroadcastTo(s, room, msg) ==
  [r \in Sessions |-> IF r \in ToRoom(s, ioRooms[room]) THEN << msg >> ELSE << >>]

\* { userId, ...userInfo }
SpreadUserInfo(userId, userInfo) == userInfo @@ [userId |-> userId]

\* userAwareness.get(id)?.userId
AwarenessUserId(aw, id) == IF id \in DOMAIN aw THEN aw[id].userId ELSE Undefined

\* userAwareness.get(id)
AwarenessGet(aw, id) == IF id \in DOMAIN aw THEN aw[id] ELSE Undefined

\* (variant: the joining socket is not filtered out)
CurrentUsersWithSelf(s, room, aw) ==
  { [socketId |-> id, userId |-> AwarenessUserId(aw, id), userInfo |-> AwarenessGet(aw, id)] :
      id \in { m \in room : Truthy(AwarenessUserId(aw, m)) } }

\* the currentUsers array built by the join-document handler, as the set of
\* its entries (one entry per room member, so no entry repeats)
CurrentUsers(s, room, aw) ==
  { [socketId |-> id, userId |-> AwarenessUserId(aw, id), userInfo |-> AwarenessGet(aw, id)] :
      id \in { m \in room : m # s /\ Truthy(AwarenessUserId(aw, m)) } }

RelayInit ==
  /\ conn = [s \in Sessions |-> "none"]
  /\ documentRooms = [d \in {} |-> {}]
  /\ userAwareness = [s \in {} |-> Undefined]
  /\ sockDocumentId = [s \in Sessions |-> Undefined]
  /\ sockUserId = [s \in Sessions |-> Undefined]
  /\ ioRooms = [d \in AllDocIds |-> {}]
  /\ handled = [type |-> "none"]
  /\ sent = NoSent

\* io.on('connection')
Connection(s) ==
  /\ conn[s] = "none"
  /\ UNCHANGED notRelayVars
  /\ conn' = [conn EXCEPT ![s] = "open"]
  /\ handled' = [type |-> "connection", from |-> s]
  /\ sent' = NoSent
  /\ UNCHANGED << documentRooms, userAwareness, sockDocumentId, sockUserId, ioRooms >>

\* (variant: a key already in the map keeps its value)
MapSetIfAbsent(m, k, v) == [x \in DOMAIN m \cup {k} |-> IF x \in DOMAIN m THEN m[x] ELSE v]

\* Map.set(k, v) and Map.delete(k) on a map kept as a function
MapSet(m, k, v) == [x \in DOMAIN m \cup {k} |-> IF x = k THEN v ELSE m[x]]

MapDelete(m, k) == [x \in DOMAIN m \ {k} |-> m[x]]

\* documentRooms after the join-document handler added s to room documentId
JoinRooms(s, documentId) == MapSet(documentRooms, documentId, RoomSet(documentId) \cup {s})

\* socket.on('join-document')
JoinDocument(s, documentId, userId, userInfo) ==
  /\ conn[s] = "open"
  /\ UNCHANGED notRelayVars
  /\ ioRooms' = [ioRooms EXCEPT ![documentId] = @ \cup {s}]
  /\ sockDocumentId' = [sockDocumentId EXCEPT ![s] = documentId]
  /\ sockUserId' = [sockUserId EXCEPT ![s] = userId]
  /\ documentRooms' = JoinRooms(s, documentId)
  /\ userAwareness' = MapSet(userAwareness, s, SpreadUserInfo(userId, userInfo))
  /\ handled' = [type |-> "join-document", from |-> s, documentId |-> documentId,
                 userId |-> userId, userInfo |-> userInfo]
  /\ sent' = [r \in Sessions |->
                (IF r \in ToRoom(s, ioRooms'[documentId])
                   THEN << [type |-> "user-joined", socketId |-> s, userId |-> userId,
                            userInfo |-> userInfo] >>
                   ELSE << >>)
                \o
                (IF r = s
                   THEN << [type |-> "current-users",
                            users |-> CurrentUsers(s, documentRooms'[documentId], userAwareness')] >>
                   ELSE << >>)]
  /\ UNCHANGED conn

\* (variant: the relay holds an update back and forwards the one before it)
YjsUpdateOneBehind(s, documentId, update) ==
  /\ conn[s] = "open"
  /\ UNCHANGED notRelayVars
  /\ handled' = [type |-> "yjs-update", from |-> s, documentId |-> documentId,
                 update |-> update]
  /\ sent' = BroadcastTo(s, documentId,
                         [type |-> "yjs-update",
                          update |-> IF handled.type = "yjs-update" THEN handled.update
                                     ELSE update])
  /\ UNCHANGED << conn, documentRooms, userAwareness, sockDocumentId, sockUserId, ioRooms >>

\* socket.on('yjs-update')
YjsUpdate(s, documentId, update) ==
  /\ conn[s] = "open"
  /\ UNCHANGED notRelayVars
  /\ handled' = [type |-> "yjs-update", from |-> s, documentId |-> documentId,
                 update |-> update]
  /\ sent' = BroadcastTo(s, documentId, [type |-> "yjs-update", update |-> update])
  /\ UNCHANGED << conn, documentRooms, userAwareness, sockDocumentId, sockUserId, ioRooms >>

\* (variant: the relay keeps the awareness it forwards in the presence table)
AwarenessUpdateKept(s, documentId, awareness) ==
  /\ conn[s] = "open"
  /\ UNCHANGED notRelayVars
  /\ handled' = [type |-> "awareness-update", from |-> s, documentId |-> documentId,
                 awareness |-> awareness]
  /\ sent' = BroadcastTo(s, documentId,
                         [type |-> "awareness-update", socketId |-> s, awareness |-> awareness])
  /\ userAwareness' = MapSet(userAwareness, s, [userId |-> sockUserId[s], awareness |-> awareness])
  /\ UNCHANGED << conn, documentRooms, sockDocumentId, sockUserId, ioRooms >>

\* socket.on('awareness-update')
AwarenessUpdate(s, documentId, awareness) ==
  /\ conn[s] = "open"
  /\ UNCHANGED notRelayVars
  /\ handled' = [type |-> "awareness-update", from |-> s, documentId |-> documentId,
                 awareness |-> awareness]
  /\ sent' = BroadcastTo(s, documentId,
                         [type |-> "awareness-update", socketId |-> s, awareness |-> awareness])
  /\ UNCHANGED << conn, documentRooms, userAwareness, sockDocumentId, sockUserId, ioRooms >>

\* (variant: the emptied room is kept)
LeaveRoomsKeepEmpty(s) ==
  IF Truthy(sockDocumentId[s]) /\ HasRoom(sockDocumentId[s])
    THEN MapSet(documentRooms, sockDocumentId[s], documentRooms[sockDocumentId[s]] \ {s})
    ELSE documentRooms

\* documentRooms after the disconnect handler removed s from the room named
\* by socket.documentId, deleting the room when it became empty
LeaveRooms(s) ==
  IF Truthy(sockDocumentId[s]) /\ HasRoom(sockDocumentId[s])
    THEN IF documentRooms[sockDocumentId[s]] \ {s} = {}
           THEN MapDelete(documentRooms, sockDocumentId[s])
           ELSE MapSet(documentRooms, sockDocumentId[s], documentRooms[sockDocumentId[s]] \ {s})
    ELSE documentRooms

\* socket.on('disconnect'); socket.io has taken the socket out of every
\* adapter room before the handler runs, and the socket object (with its
\* documentId and userId fields) is dropped after it
Disconnect(s) ==
  /\ conn[s] = "open"
  /\ UNCHANGED notRelayVars
  /\ conn' = [conn EXCEPT ![s] = "closed"]
  /\ ioRooms' = [d \in AllDocIds |-> ioRooms[d] \ {s}]
  /\ documentRooms' = LeaveRooms(s)
  /\ userAwareness' = MapDelete(userAwareness, s)
  /\ handled' = [type |-> "disconnect", from |-> s, documentId |-> sockDocumentId[s],
                 userId |-> sockUserId[s]]
  /\ sent' = IF Truthy(sockDocumentId[s])
               THEN [r \in Sessions |->
                       IF r \in ToRoom(s, ioRooms'[sockDocumentId[s]])
                         THEN << [type |-> "user-left", socketId |-> s,
                                  userId |-> sockUserId[s]] >>
                         ELSE << >>]
               ELSE NoSent
  /\ sockDocumentId' = [sockDocumentId EXCEPT ![s] = Undefined]
  /\ sockUserId' = [sockUserId EXCEPT ![s] = Undefined]

RelayNext ==
  \/ \E s \in Sessions : Connection(s)
  \/ \E s \in Sessions, d \in DocIds, u \in UserIds, i \in UserInfos : JoinDocument(s, d, u, i)
  \/ \E s \in Sessions, d \in DocIds, u \in Updates : YjsUpdate(s, d, u)
  \/ \E s \in Sessions, d \in DocIds, a \in AwarenessStates : AwarenessUpdate(s, d, a)
  \/ \E s \in Sessions : Disconnect(s)

\* the same handlers, receiving payloads whose documentId may be empty
RelayNextMalformed ==
  \/ \E s \in Sessions : Connection(s)
  \/ \E s \in Sessions, d \in MalformedDocIds, u \in UserIds, i \in UserInfos :
       JoinDocument(s, d, u, i)
  \/ \E s \in Sessions, d \in MalformedDocIds, u \in Updates : YjsUpdate(s, d, u)
  \/ \E s \in Sessions, d \in MalformedDocIds, a \in AwarenessStates : AwarenessUpdate(s, d, a)
  \/ \E s \in Sessions : Disconnect(s)

\* ------------------------------------------------------------------------
\* Provider: src/lib/ySocketProvider.js
\* ------------------------------------------------------------------------

\* the state the constructor leaves: socket created but not yet connected,
\* listeners set up, no timer pending
ClientInit ==
  /\ connected = FALSE
  /\ ydoc = {}
  /\ updateTimeout = Undefined
  /\ timerUpdate = Undefined
  /\ emitted = << >>
  /\ cEvent = [type |-> "none", sends |-> 0]
  /\ windowDeltas = << >>
  /\ socketClosed = FALSE
  /\ persistence = "open"
  /\ joinCalls = 0
  /\ destroyCalls = 0
  /\ awarenessCalls = 0
  /\ providerAwareness = [s \in {} |-> Undefined]
  /\ onAwarenessUpdate = FALSE
  /\ delivered = [type |-> "none"]
  /\ leftSeen = {}

\* this.socket.on('connect')
SocketConnect ==
  /\ ~connected
  /\ ~socketClosed
  /\ UNCHANGED notClientVars
  /\ UNCHANGED presenceVars
  /\ UNCHANGED lifeVars
  /\ connected' = TRUE
  /\ cEvent' = [type |-> "connect", sends |-> 0]
  /\ UNCHANGED << ydoc, updateTimeout, timerUpdate, emitted, windowDeltas >>

\* this.socket.on('disconnect')
SocketDisconnect ==
  /\ connected
  /\ UNCHANGED notClientVars
  /\ UNCHANGED presenceVars
  /\ UNCHANGED lifeVars
  /\ connected' = FALSE
  /\ cEvent' = [type |-> "disconnect", sends |-> 0]
  /\ UNCHANGED << ydoc, updateTimeout, timerUpdate, emitted, windowDeltas >>

\* the ydoc 'update' listener of setupYjsListeners: returns at once while a
\* timer is pending, else starts the 200 ms timer whose callback closes over
\* this update
OnYdocUpdate(update, origin) ==
  IF updateTimeout # Undefined
    THEN /\ windowDeltas' = Append(windowDeltas, [update |-> update, origin |-> origin])
         /\ UNCHANGED << updateTimeout, timerUpdate >>
    ELSE /\ updateTimeout' = "timer"
         /\ timerUpdate' = update
         /\ windowDeltas' = << [update |-> update, origin |-> origin] >>

\* a local edit: the document integrates a new update and notifies the listener
YdocUpdate(update) ==
  /\ update \notin ydoc
  /\ UNCHANGED notClientVars
  /\ UNCHANGED presenceVars
  /\ UNCHANGED lifeVars
  /\ ydoc' = ydoc \cup {update}
  /\ OnYdocUpdate(update, "local")
  /\ UNCHANGED << connected, emitted >>
  /\ cEvent' = [type |-> "update", sends |-> Len(emitted') - Len(emitted)]

\* (variant: an update that arrives while the throttle timer is pending is
\* not applied)
OnYjsUpdateThrottled(update) ==
  /\ connected
  /\ UNCHANGED notClientVars
  /\ UNCHANGED presenceVars
  /\ UNCHANGED lifeVars
  /\ ydoc' = IF updateTimeout # Undefined THEN ydoc ELSE ydoc \cup {update}
  /\ IF update \notin ydoc /\ updateTimeout = Undefined
       THEN OnYdocUpdate(update, "remote")
       ELSE UNCHANGED << updateTimeout, timerUpdate, windowDeltas >>
  /\ UNCHANGED << connected, emitted >>
  /\ cEvent' = [type |-> "yjs-update", sends |-> Len(emitted') - Len(emitted),
                update |-> update]

\* this.socket.on('yjs-update'): Y.applyUpdate integrates the remote update;
\* the document notifies its 'update' listener when the update is new to it
OnYjsUpdate(update) ==
  /\ connected
  /\ UNCHANGED notClientVars
  /\ UNCHANGED presenceVars
  /\ UNCHANGED lifeVars
  /\ ydoc' = ydoc \cup {update}
  /\ IF update \notin ydoc
       THEN OnYdocUpdate(update, "remote")
       ELSE UNCHANGED << updateTimeout, timerUpdate, windowDeltas >>
  /\ UNCHANGED << connected, emitted >>
  /\ cEvent' = [type |-> "yjs-update", sends |-> Len(emitted') - Len(emitted),
                update |-> update]

\* (variant: the callback emits whether or not the socket is connected)
TimeoutEmitsAlways(update) == << [type |-> "yjs-update", update |-> update] >>

\* what the timer callback emits: the captured update if the socket is
\* connected, else nothing
TimeoutEmits(update) ==
  IF connected THEN << [type |-> "yjs-update", update |-> update] >> ELSE << >>

\* the setTimeout callback of setupYjsListeners, 200 ms after the timer started
UpdateTimeout ==
  /\ updateTimeout # Undefined
  /\ UNCHANGED notClientVars
  /\ UNCHANGED presenceVars
  /\ UNCHANGED lifeVars
  /\ emitted' = emitted \o TimeoutEmits(timerUpdate)
  /\ updateTimeout' = Undefined
  /\ timerUpdate' = Undefined
  /\ cEvent' = [type |-> "timeout", sends |-> Len(emitted') - Len(emitted)]
  /\ UNCHANGED << connected, ydoc, windowDeltas >>

\* the colors array of generateUserColor
colors ==
  << "#FF6B6B", "#4ECDC4", "#45B7D1", "#96CEB4", "#FFEAA7",
     "#DDA0DD", "#98D8C8", "#AED6F1", "#F7DC6F", "#BB8FCE" >>

\* a hash value h is kept as << hi, lo >> with h = hi * 65536 + lo and
\* 0 <= lo < 65536, so that no intermediate value leaves 32 bits
Word == 65536

\* hash << 5: the low 32 bits of 32 * hash, read as a signed integer
ShiftLeft5(h) ==
  LET t    == 32 * h[2]
      hiU  == ((h[1] % 2048) * 32 + (t \div Word)) % Word
  IN  << IF hiU >= 32768 THEN hiU - Word ELSE hiU, t % Word >>

\* userId.charCodeAt(i) + ((hash << 5) - hash)
HashStep(h, charCode) ==
  LET sh == ShiftLeft5(h)
      lo == charCode + sh[2] - h[2]
  IN  << sh[1] - h[1] + (lo \div Word), lo % Word >>

\* the loop of generateUserColor over the char codes of userId
RECURSIVE HashLoop(_, _, _)
HashLoop(codes, i, h) ==
  IF i > Len(codes) THEN h ELSE HashLoop(codes, i + 1, HashStep(h, codes[i]))

\* (variant: the remainder is taken of the hash itself, and keeps its sign)
AbsMod10Signed(h) ==
  LET m == ((h[1] % 10) * 6 + h[2]) % 10
  IN  IF h[1] >= 0 THEN m ELSE 0 - ((10 - m) % 10)

\* Math.abs(hash) % 10
AbsMod10(h) ==
  LET m == ((h[1] % 10) * 6 + h[2]) % 10
  IN  IF h[1] >= 0 THEN m ELSE (10 - m) % 10

\* colors[index]: undefined outside the array
ColorAt(index) == IF index \in 0..(Len(colors) - 1) THEN colors[index + 1] ELSE Undefined

\* generateUserColor(userId)
generateUserColor(userId) ==
  ColorAt(AbsMod10(HashLoop(CharCodes[userId], 1, << 0, 0 >>)))

\* generateUserColor called with the userId made of the given code units;
\* the call before it is remembered when it was for the same userId
GenerateUserColor(codes) ==
  /\ colored' = [calls |-> IF colored.calls > 0 /\ colored.codes = codes THEN 2 ELSE 1,
                 codes |-> codes,
                 hash |-> HashLoop(codes, 1, << 0, 0 >>),
                 index |-> AbsMod10(HashLoop(codes, 1, << 0, 0 >>)),
                 color |-> ColorAt(AbsMod10(HashLoop(codes, 1, << 0, 0 >>)))]
  /\ UNCHANGED measured
  /\ UNCHANGED << relayVars, clientVars, pagerVars, overlapVars >>

ColorsNext == \E codes \in SeqsUpTo(IdCodes, MaxIdLen) : GenerateUserColor(codes)

\* joinDocument(userId): emits join-document if the socket is connected, and
\* does nothing otherwise (userInfo is left at its default, {})
joinDocument(userId) ==
  /\ joinCalls < MaxJoinCalls
  /\ UNCHANGED notClientVars
  /\ UNCHANGED presenceVars
  /\ joinCalls' = joinCalls + 1
  /\ emitted' = IF connected
                  THEN Append(emitted,
                              [type |-> "join-document", documentId |-> ProviderDocId,
                               userId |-> userId,
                               userInfo |-> [name |-> userId,
                                             color |-> generateUserColor(userId)]])
                  ELSE emitted
  /\ cEvent' = [type |-> "join", sends |-> Len(emitted') - Len(emitted)]
  /\ UNCHANGED << connected, ydoc, updateTimeout, timerUpdate, windowDeltas,
                  socketClosed, persistence, destroyCalls, awarenessCalls >>

\* (variant: the persistence is released through a handle that a second call
\* no longer finds)
PersistenceDestroyOnce(p) ==
  IF p = "open" THEN [persistence |-> "destroyed", error |-> FALSE]
  ELSE [persistence |-> "open", error |-> TRUE]

\* if (this.persistence) this.persistence.destroy(): the field stays set, and
\* destroying the IndexedDB persistence again changes nothing
PersistenceDestroy(p) == [persistence |-> "destroyed", error |-> FALSE]

\* (variant: the socket is closed without its 'disconnect' handler running,
\* so this.connected keeps its value)
destroyLeavesConnected ==
  /\ UNCHANGED notClientVars
  /\ UNCHANGED presenceVars
  /\ socketClosed' = TRUE
  /\ connected' = connected
  /\ persistence' = PersistenceDestroy(persistence).persistence
  /\ destroyCalls' = IF destroyCalls < 2 THEN destroyCalls + 1 ELSE 2
  /\ cEvent' = [type |-> "destroy", sends |-> 0,
                error |-> PersistenceDestroy(persistence).error]
  /\ UNCHANGED << ydoc, updateTimeout, timerUpdate, emitted, windowDeltas, joinCalls,
                  awarenessCalls >>

\* destroy(): socket.disconnect() closes the socket for good (its
\* 'disconnect' handler clears this.connected if it was connected), then the
\* persistence is destroyed; neither field is cleared and the throttle timer
\* is left pending
destroy ==
  /\ UNCHANGED notClientVars
  /\ UNCHANGED presenceVars
  /\ socketClosed' = TRUE
  /\ connected' = FALSE
  /\ persistence' = PersistenceDestroy(persistence).persistence
  /\ destroyCalls' = IF destroyCalls < 2 THEN destroyCalls + 1 ELSE 2
  /\ cEvent' = [type |-> "destroy", sends |-> 0,
                error |-> PersistenceDestroy(persistence).error]
  /\ UNCHANGED << ydoc, updateTimeout, timerUpdate, emitted, windowDeltas, joinCalls,
                  awarenessCalls >>

\* the caller sets provider.onAwarenessUpdate
SetOnAwarenessUpdate ==
  /\ ~onAwarenessUpdate
  /\ UNCHANGED notClientVars
  /\ UNCHANGED lifeVars
  /\ onAwarenessUpdate' = TRUE
  /\ cEvent' = [type |-> "set-callback", sends |-> 0]
  /\ UNCHANGED << connected, ydoc, updateTimeout, timerUpdate, emitted, windowDeltas,
                  providerAwareness, linkVars >>

\* the callback was not called
NotCalled == [called |-> FALSE]

\* this.onAwarenessUpdate?.(this.awareness): whether the callback is called,
\* and the map it is called with
NotifyAwareness(map) ==
  IF onAwarenessUpdate THEN [called |-> TRUE, map |-> map] ELSE NotCalled

\* this.socket.on('awareness-update')
OnAwarenessUpdate(socketId, payload) ==
  /\ connected
  /\ UNCHANGED notClientVars
  /\ UNCHANGED lifeVars
  /\ providerAwareness' = MapSet(providerAwareness, socketId, payload)
  /\ cEvent' = [type |-> "awareness-update", sends |-> 0, socketId |-> socketId,
                awareness |-> payload, notified |-> NotifyAwareness(providerAwareness')]
  /\ UNCHANGED << connected, ydoc, updateTimeout, timerUpdate, emitted, windowDeltas,
                  onAwarenessUpdate, linkVars >>

\* (variant: the entry is deleted without notifying the caller)
OnUserLeftSilent(socketId) ==
  /\ connected
  /\ UNCHANGED notClientVars
  /\ UNCHANGED lifeVars
  /\ providerAwareness' = MapDelete(providerAwareness, socketId)
  /\ cEvent' = [type |-> "user-left", sends |-> 0, socketId |-> socketId,
                notified |-> NotCalled]
  /\ UNCHANGED << connected, ydoc, updateTimeout, timerUpdate, emitted, windowDeltas,
                  onAwarenessUpdate, linkVars >>

\* this.socket.on('user-left') (onUserLeft, which no state depends on, is
\* called between the deletion and the notification)
OnUserLeft(socketId) ==
  /\ connected
  /\ UNCHANGED notClientVars
  /\ UNCHANGED lifeVars
  /\ providerAwareness' = MapDelete(providerAwareness, socketId)
  /\ cEvent' = [type |-> "user-left", sends |-> 0, socketId |-> socketId,
                notified |-> NotifyAwareness(providerAwareness')]
  /\ UNCHANGED << connected, ydoc, updateTimeout, timerUpdate, emitted, windowDeltas,
                  onAwarenessUpdate, linkVars >>

\* (variant: the presence is emitted whether or not the socket is connected)
updateAwarenessUnguarded(awareness) ==
  /\ awarenessCalls < MaxAwarenessCalls
  /\ UNCHANGED notClientVars
  /\ UNCHANGED presenceVars
  /\ awarenessCalls' = awarenessCalls + 1
  /\ emitted' = Append(emitted,
                       [type |-> "awareness-update", documentId |-> ProviderDocId,
                        awareness |-> awareness])
  /\ cEvent' = [type |-> "awareness", sends |-> Len(emitted') - Len(emitted)]
  /\ UNCHANGED << connected, ydoc, updateTimeout, timerUpdate, windowDeltas,
                  socketClosed, persistence, joinCalls, destroyCalls >>

\* updateAwareness(awareness): emits awareness-update if the socket is
\* connected, and does nothing otherwise
updateAwareness(awareness) ==
  /\ awarenessCalls < MaxAwarenessCalls
  /\ UNCHANGED notClientVars
  /\ UNCHANGED presenceVars
  /\ awarenessCalls' = awarenessCalls + 1
  /\ emitted' = IF connected
                  THEN Append(emitted,
                              [type |-> "awareness-update", documentId |-> ProviderDocId,
                               awareness |-> awareness])
                  ELSE emitted
  /\ cEvent' = [type |-> "awareness", sends |-> Len(emitted') - Len(emitted)]
  /\ UNCHANGED << connected, ydoc, updateTimeout, timerUpdate, windowDeltas,
                  socketClosed, persistence, joinCalls, destroyCalls >>

\* the socket id under which the relay knows the provider's connection
ProviderSession == "s1"

\* the relay has emitted nothing to the provider that the provider has not
\* processed
Consumed == sent[ProviderSession] = << >> \/ handled = delivered

\* (variant: user-left leaves the presence entry in place)
ReceiveKeepsEntry ==
  /\ ~Consumed
  /\ LET m == sent[ProviderSession][1]
     IN  /\ providerAwareness' =
              CASE m.type = "awareness-update" ->
                     MapSet(providerAwareness, m.socketId, m.awareness)
                [] OTHER -> providerAwareness
         /\ leftSeen' = IF m.type = "user-left" THEN leftSeen \cup {m.socketId} ELSE leftSeen
         /\ cEvent' = IF m.type \in {"awareness-update", "user-left"}
                        THEN [type |-> m.type, sends |-> 0, socketId |-> m.socketId,
                              had |-> m.socketId \in DOMAIN providerAwareness]
                        ELSE [type |-> m.type, sends |-> 0]
  /\ delivered' = handled
  /\ UNCHANGED notClientVars
  /\ UNCHANGED lifeVars
  /\ UNCHANGED << connected, ydoc, updateTimeout, timerUpdate, emitted, windowDeltas,
                  onAwarenessUpdate >>

\* the provider's socket takes the message the relay emitted to it and runs
\* the handler registered for its type: awareness-update sets the sender's
\* entry of this.awareness, user-left deletes it, user-joined and
\* current-users only call the caller's callbacks
Receive ==
  /\ ~Consumed
  /\ LET m == sent[ProviderSession][1]
     IN  /\ providerAwareness' =
              CASE m.type = "awareness-update" ->
                     MapSet(providerAwareness, m.socketId, m.awareness)
                [] m.type = "user-left" -> MapDelete(providerAwareness, m.socketId)
                [] OTHER -> providerAwareness
         /\ leftSeen' = IF m.type = "user-left" THEN leftSeen \cup {m.socketId} ELSE leftSeen
         /\ cEvent' = IF m.type \in {"awareness-update", "user-left"}
                        THEN [type |-> m.type, sends |-> 0, socketId |-> m.socketId,
                              had |-> m.socketId \in DOMAIN providerAwareness]
                        ELSE [type |-> m.type, sends |-> 0]
  /\ delivered' = handled
  /\ UNCHANGED notClientVars
  /\ UNCHANGED lifeVars
  /\ UNCHANGED << connected, ydoc, updateTimeout, timerUpdate, emitted, windowDeltas,
                  onAwarenessUpdate >>

\* the relay's handlers, each run once the provider has processed what the
\* handler before it emitted to it (one connection carries the events in
\* the order the relay emitted them)
LinkConnection(s) == Consumed /\ Connection(s)

LinkJoinDocument(s, documentId, userId, userInfo) ==
  Consumed /\ JoinDocument(s, documentId, userId, userInfo)

LinkAwarenessUpdate(s, documentId, awareness) ==
  Consumed /\ AwarenessUpdate(s, documentId, awareness)

LinkDisconnect(s) == Consumed /\ Disconnect(s)

\* the relay's presence traffic and one provider, connected as
\* ProviderSession, processing what the relay emits to it
LinkNext ==
  \/ \E s \in Sessions : LinkConnection(s)
  \/ \E s \in Sessions, d \in DocIds : LinkJoinDocument(s, d, "userA", [name |-> "A"])
  \/ \E s \in Sessions, d \in DocIds, a \in AwarenessStates : LinkAwarenessUpdate(s, d, a)
  \/ \E s \in Sessions : LinkDisconnect(s)
  \/ Receive

\* the provider's sending side: connection events, local edits, the throttle
\* timer, and the caller's joinDocument and updateAwareness
SendsNext ==
  \/ SocketConnect
  \/ SocketDisconnect
  \/ \E u \in Deltas : YdocUpdate(u)
  \/ UpdateTimeout
  \/ \E u \in ClientUserIds : joinDocument(u)
  \/ \E a \in PeerAwareness : updateAwareness(a)

\* the provider's presence side: connection events, the two presence
\* handlers, the caller's callback and destroy
PresenceNext ==
  \/ SocketConnect
  \/ SocketDisconnect
  \/ SetOnAwarenessUpdate
  \/ \E p \in PeerIds, a \in PeerAwareness : OnAwarenessUpdate(p, a)
  \/ \E p \in PeerIds : OnUserLeft(p)
  \/ destroy

ClientNext ==
  \/ SocketConnect
  \/ SocketDisconnect
  \/ \E u \in Deltas : YdocUpdate(u)
  \/ \E u \in Deltas : OnYjsUpdate(u)
  \/ UpdateTimeout
  \/ \E u \in ClientUserIds : joinDocument(u)
  \/ destroy

\* ------------------------------------------------------------------------
\* Editor pagination: src/unnamed/part_004
\* ------------------------------------------------------------------------

PAGE_HEIGHT == 1122

\* the elements-per-page guess of the worker's first page index
PAGE_INDEX_DIVISOR == 15

\* Math.min(navigator.hardwareConcurrency || 4, 8)
MAX_POOL_SIZE == 8

\* heights are kept in tenths of a pixel, so that the multipliers 1.5 and 1.2
\* stay integers
HeightScale == 10

Min(a, b) == IF a < b THEN a ELSE b

\* (variant: the quotient is rounded down)
CeilDivRoundedDown(a, b) == a \div b

\* Math.ceil(a / b) for a >= 0, b > 0
CeilDiv(a, b) == (a + b - 1) \div b

\* Math.floor(a / b) for a >= 0, b > 0
FloorDiv(a, b) == a \div b

\* (variant: the worker leaves the element type's multiplier out)
WorkerElementHeightPlain(element) ==
  LET baseHeight == 24
      contentLength == element.len
      linesNeeded == CeilDiv(contentLength, 60)
  IN  baseHeight * linesNeeded * 10 + 12 * HeightScale

\* calculateElementHeight of the worker source, times HeightScale
\* (element.content ? element.content.length : 0: the empty string is falsy)
WorkerElementHeight(element) ==
  LET baseHeight == 24
      contentLength == IF element.len # 0 THEN element.len ELSE 0
      linesNeeded == CeilDiv(contentLength, 60)
      multiplier == CASE element.type = "scene_heading" -> 15
                      [] element.type = "character" -> 12
                      [] OTHER -> 10
  IN  baseHeight * linesNeeded * multiplier + 12 * HeightScale

\* (variant: a node without text still takes one line)
calculateElementHeightOneLine(node) ==
  LET baseHeight == 24
      contentLength == node.len
      linesNeeded == IF contentLength = 0 THEN 1 ELSE CeilDiv(contentLength, 60)
      multiplier == CASE node.type = "scene_heading" -> 15
                      [] node.type = "character" -> 12
                      [] OTHER -> 10
  IN  baseHeight * linesNeeded * multiplier + 12 * HeightScale

\* calculateElementHeight of the Editor component, times HeightScale
calculateElementHeight(node) ==
  LET baseHeight == 24
      contentLength == node.len
      linesNeeded == CeilDiv(contentLength, 60)
      multiplier == CASE node.type = "scene_heading" -> 15
                      [] node.type = "character" -> 12
                      [] OTHER -> 10
  IN  baseHeight * linesNeeded * multiplier + 12 * HeightScale

\* (variant: the page is closed even when it is still empty)
WorkerClosesPageWhenEmpty(currentPage, currentPageHeight, elementHeight, pageHeight) ==
  currentPageHeight + elementHeight > pageHeight * HeightScale

\* the worker's test for closing the current page before adding an element
WorkerClosesPage(currentPage, currentPageHeight, elementHeight, pageHeight) ==
  currentPageHeight + elementHeight > pageHeight * HeightScale /\ Len(currentPage) > 0

\* the loop and the final push of the worker's onmessage, from element i on
RECURSIVE WorkerLoop(_, _, _, _, _, _, _)
WorkerLoop(elements, i, processedPages, currentPage, currentPageHeight, pageIndex, pageHeight) ==
  IF i > Len(elements)
    THEN IF Len(currentPage) > 0
           THEN Append(processedPages, [pageIndex |-> pageIndex, elements |-> currentPage])
           ELSE processedPages
    ELSE LET element == elements[i]
             elementHeight == WorkerElementHeight(element)
         IN  IF WorkerClosesPage(currentPage, currentPageHeight, elementHeight, pageHeight)
               THEN WorkerLoop(elements, i + 1,
                               Append(processedPages,
                                      [pageIndex |-> pageIndex, elements |-> currentPage]),
                               << element >>, elementHeight, pageIndex + 1, pageHeight)
               ELSE WorkerLoop(elements, i + 1, processedPages,
                               Append(currentPage, element),
                               currentPageHeight + elementHeight, pageIndex, pageHeight)

\* the pages a worker posts back for one request
WorkerPages(request) ==
  WorkerLoop(request.elements, 1, << >>, << >>, 0,
             FloorDiv(request.startIndex, PAGE_INDEX_DIVISOR), request.pageHeight)

\* (variant: only the element's own height is compared with the budget)
FallbackClosesPageOnOwnHeight(currentPage, currentPageHeight, elementHeight) ==
  elementHeight > PAGE_HEIGHT * HeightScale /\ Len(currentPage) > 0

\* fallbackUpdatePages' test for closing the current page before adding a node
FallbackClosesPage(currentPage, currentPageHeight, elementHeight) ==
  currentPageHeight + elementHeight > PAGE_HEIGHT * HeightScale /\ Len(currentPage) > 0

\* the doc.descendants loop and the final push of fallbackUpdatePages
RECURSIVE FallbackLoop(_, _, _, _, _)
FallbackLoop(nodes, i, newPages, currentPage, currentPageHeight) ==
  IF i > Len(nodes)
    THEN IF Len(currentPage) > 0 THEN Append(newPages, currentPage) ELSE newPages
    ELSE LET node == nodes[i]
             elementHeight == calculateElementHeight(node)
         IN  IF FallbackClosesPage(currentPage, currentPageHeight, elementHeight)
               THEN FallbackLoop(nodes, i + 1, Append(newPages, currentPage),
                                 << node >>, elementHeight)
               ELSE FallbackLoop(nodes, i + 1, newPages, Append(currentPage, node),
                                 currentPageHeight + elementHeight)

\* the elements updatePages extracts from the document: type, content (its
\* length) and position
AllElements(d) == [i \in 1..Len(d) |-> [type |-> d[i].type, len |-> d[i].len, pos |-> i]]

\* the page list fallbackUpdatePages publishes
FallbackPages(d) == FallbackLoop(AllElements(d), 1, << >>, << >>, 0)

\* the requests updatePages posts: one per worker, skipping empty chunks
ChunkRequests(allElements, numWorkers) ==
  LET chunkSize == CeilDiv(Len(allElements), numWorkers)
      startIndex(i) == i * chunkSize
      endIndex(i) == Min(startIndex(i) + chunkSize, Len(allElements))
      Dispatched == { i \in 0..(numWorkers - 1) : startIndex(i) < endIndex(i) }
  IN  [k \in 1..Cardinality(Dispatched) |->
         [worker |-> k - 1,
          elements |-> SubSeq(allElements, startIndex(k - 1) + 1, endIndex(k - 1)),
          startIndex |-> startIndex(k - 1),
          chunkSize |-> endIndex(k - 1) - startIndex(k - 1),
          pageHeight |-> PAGE_HEIGHT]]

\* Array.prototype.sort by pageIndex (a stable sort): p is put behind every
\* page whose pageIndex is not larger
RECURSIVE InsertByPageIndex(_, _)
InsertByPageIndex(sorted, p) ==
  IF sorted = << >> \/ sorted[Len(sorted)].pageIndex <= p.pageIndex
    THEN Append(sorted, p)
    ELSE Append(InsertByPageIndex(SubSeq(sorted, 1, Len(sorted) - 1), p), sorted[Len(sorted)])

RECURSIVE SortByPageIndex(_)
SortByPageIndex(ps) ==
  IF ps = << >> THEN << >>
  ELSE InsertByPageIndex(SortByPageIndex(SubSeq(ps, 1, Len(ps) - 1)), ps[Len(ps)])

\* (variant: the first rejected promise ends the combination)
RECURSIVE CombineResultsUntilRejected(_, _)
CombineResultsUntilRejected(results, k) ==
  IF k > Len(results) \/ results[k].status = "rejected" THEN << >>
  ELSE results[k].value \o CombineResultsUntilRejected(results, k + 1)

\* the values of the fulfilled promises, concatenated in promise order
RECURSIVE CombineResults(_, _)
CombineResults(results, k) ==
  IF k > Len(results) THEN << >>
  ELSE (IF results[k].status = "fulfilled" THEN results[k].value ELSE << >>)
       \o CombineResults(results, k + 1)

\* (variant: the new pages are added behind the pages published before)
FinalPagesBehindOld(results) ==
  LET allPages == SortByPageIndex(CombineResults(results, 1))
  IN  pages \o [p \in 1..Len(allPages) |-> allPages[p].elements]

\* the finalPages updatePages publishes from the settled promises
FinalPages(results) ==
  LET allPages == SortByPageIndex(CombineResults(results, 1))
  IN  [p \in 1..Len(allPages) |-> allPages[p].elements]

Pending == [status |-> "pending"]

\* the count of runs in a row without a failed worker, after one more of
\* them (it stops at 2: "twice or more")
CleanRun == Min(cleanRuns + 1, 2)

Settled(k) == workerPromises[k].status # "pending"

\* a document of at most MaxElems elements and a pool of at most MaxWorkers
\* workers (none when every createPaginationWorker call failed); nothing
\* paginated yet
PagerInit ==
  /\ doc \in SeqsUpTo(ElementKinds, MaxElems)
  /\ workers \in 0..Min(MaxWorkers, MAX_POOL_SIZE)
  /\ pages = << >>
  /\ processingPages = FALSE
  /\ requests = << >>
  /\ workerPromises = << >>
  /\ lastRun = [path |-> "none", rejected |-> 0]
  /\ cleanRuns = 0
  /\ terminated = FALSE
  /\ laterRequests = << >>
  /\ laterPromises = << >>
  /\ owed = << >>
  /\ laterOutcome = "none"
  /\ measured = [type |-> "none"]
  /\ colored = [calls |-> 0]

\* the same with a document of oversized action elements only
PagerInitPlain ==
  /\ doc \in SeqsUpTo({ e \in ElementKinds : e.len = 2800 }, MaxElems)
  /\ workers \in 0..Min(MaxWorkers, MAX_POOL_SIZE)
  /\ pages = << >>
  /\ processingPages = FALSE
  /\ requests = << >>
  /\ workerPromises = << >>
  /\ lastRun = [path |-> "none", rejected |-> 0]
  /\ cleanRuns = 0
  /\ terminated = FALSE
  /\ laterRequests = << >>
  /\ laterPromises = << >>
  /\ owed = << >>
  /\ laterOutcome = "none"
  /\ measured = [type |-> "none"]
  /\ colored = [calls |-> 0]

\* the editor with an empty document and no worker
PagerRest ==
  /\ doc = << >>
  /\ workers = 0
  /\ pages = << >>
  /\ processingPages = FALSE
  /\ requests = << >>
  /\ workerPromises = << >>
  /\ lastRun = [path |-> "none", rejected |-> 0]
  /\ cleanRuns = 0
  /\ terminated = FALSE
  /\ laterRequests = << >>
  /\ laterPromises = << >>
  /\ owed = << >>
  /\ laterOutcome = "none"
  /\ measured = [type |-> "none"]
  /\ colored = [calls |-> 0]

\* (variant: with an empty pool the run returns without calling the fallback)
UpdatePagesNoDelegation ==
  /\ ~terminated
  /\ workerPromises = << >>
  /\ UNCHANGED notPagerVars
  /\ UNCHANGED << doc, workers, terminated >>
  /\ IF workers = 0
       THEN /\ pages' = pages
            /\ lastRun' = [path |-> "fallback", rejected |-> 0]
            /\ cleanRuns' = CleanRun
            /\ UNCHANGED << processingPages, requests, workerPromises >>
       ELSE IF Len(AllElements(doc)) = 0
         THEN /\ pages' = << >>
              /\ processingPages' = FALSE
              /\ lastRun' = [path |-> "empty", rejected |-> 0]
              /\ cleanRuns' = CleanRun
              /\ UNCHANGED << requests, workerPromises >>
         ELSE /\ processingPages' = TRUE
              /\ requests' = ChunkRequests(AllElements(doc), workers)
              /\ workerPromises' = [k \in 1..Len(requests') |-> Pending]
              /\ UNCHANGED << pages, lastRun, cleanRuns >>

\* updatePages up to its await: the fallback when the pool is empty, the
\* empty page list for an empty document, else one request per worker.
\* (One run at a time: a run starts when no earlier run awaits its workers.)
UpdatePages ==
  /\ ~terminated
  /\ workerPromises = << >>
  /\ UNCHANGED notPagerVars
  /\ UNCHANGED << doc, workers, terminated >>
  /\ IF workers = 0
       THEN /\ pages' = FallbackPages(doc)
            /\ lastRun' = [path |-> "fallback", rejected |-> 0]
            /\ cleanRuns' = CleanRun
            /\ UNCHANGED << processingPages, requests, workerPromises >>
       ELSE IF Len(AllElements(doc)) = 0
         THEN /\ pages' = << >>
              /\ processingPages' = FALSE
              /\ lastRun' = [path |-> "empty", rejected |-> 0]
              /\ cleanRuns' = CleanRun
              /\ UNCHANGED << requests, workerPromises >>
         ELSE /\ processingPages' = TRUE
              /\ requests' = ChunkRequests(AllElements(doc), workers)
              /\ workerPromises' = [k \in 1..Len(requests') |-> Pending]
              /\ UNCHANGED << pages, lastRun, cleanRuns >>

\* worker.onmessage: the worker's answer to request k resolves its promise
\* (a terminated worker answers nothing)
WorkerMessage(k) ==
  /\ ~terminated
  /\ k \in 1..Len(workerPromises)
  /\ ~Settled(k)
  /\ workerPromises' = [workerPromises EXCEPT
                          ![k] = [status |-> "fulfilled", value |-> WorkerPages(requests[k])]]
  /\ UNCHANGED notPagerVars
  /\ UNCHANGED << doc, workers, terminated, pages, processingPages, requests, lastRun, cleanRuns >>

\* worker.onerror rejects the promise of request k (the reason of a rejection
\* is only logged, and is not kept)
WorkerError(k) ==
  /\ ~terminated
  /\ k \in 1..Len(workerPromises)
  /\ ~Settled(k)
  /\ workerPromises' = [workerPromises EXCEPT
                          ![k] = [status |-> "rejected"]]
  /\ UNCHANGED notPagerVars
  /\ UNCHANGED << doc, workers, terminated, pages, processingPages, requests, lastRun, cleanRuns >>

\* (variant: one timer for the whole run, held by the first request)
WorkerTimeoutOfFirstOnly(k) ==
  /\ k = 1
  /\ k \in 1..Len(workerPromises)
  /\ ~Settled(k)
  /\ workerPromises' = [workerPromises EXCEPT
                          ![k] = [status |-> "rejected"]]
  /\ UNCHANGED notPagerVars
  /\ UNCHANGED << doc, workers, terminated, pages, processingPages, requests, lastRun, cleanRuns >>

\* the 10 s timer of request k rejects its promise
WorkerTimeout(k) ==
  /\ k \in 1..Len(workerPromises)
  /\ ~Settled(k)
  /\ workerPromises' = [workerPromises EXCEPT
                          ![k] = [status |-> "rejected"]]
  /\ UNCHANGED notPagerVars
  /\ UNCHANGED << doc, workers, terminated, pages, processingPages, requests, lastRun, cleanRuns >>

\* (variant: the run publishes as soon as one promise has settled, as with
\* Promise.race)
AllSettledAtFirst ==
  /\ workerPromises # << >>
  /\ \E k \in 1..Len(workerPromises) : Settled(k)
  /\ pages' = FinalPages(workerPromises)
  /\ processingPages' = FALSE
  /\ lastRun' = [path |-> "parallel",
                 rejected |-> Cardinality({ k \in 1..Len(workerPromises) :
                                              workerPromises[k].status = "rejected" })]
  /\ cleanRuns' = IF lastRun'.rejected = 0 THEN CleanRun ELSE 0
  /\ requests' = << >>
  /\ workerPromises' = << >>
  /\ UNCHANGED notPagerVars
  /\ UNCHANGED << doc, workers, terminated >>

\* updatePages after Promise.allSettled: combine, sort, publish
AllSettled ==
  /\ workerPromises # << >>
  /\ \A k \in 1..Len(workerPromises) : Settled(k)
  /\ pages' = FinalPages(workerPromises)
  /\ processingPages' = FALSE
  /\ lastRun' = [path |-> "parallel",
                 rejected |-> Cardinality({ k \in 1..Len(workerPromises) :
                                              workerPromises[k].status = "rejected" })]
  /\ cleanRuns' = IF lastRun'.rejected = 0 THEN CleanRun ELSE 0
  /\ requests' = << >>
  /\ workerPromises' = << >>
  /\ UNCHANGED notPagerVars
  /\ UNCHANGED << doc, workers, terminated >>

\* the component unmounts: the cleanup of the worker pool effect terminates
\* every worker, and the cleanup of the editor effect destroys the view, the
\* provider (see destroy) and the Yjs document. Neither clears the 10 s
\* timers of the requests in flight, and the run awaiting them is not told.
Cleanup ==
  /\ ~terminated
  /\ terminated' = TRUE
  /\ socketClosed' = TRUE
  /\ connected' = FALSE
  /\ persistence' = PersistenceDestroy(persistence).persistence
  /\ destroyCalls' = IF destroyCalls < 2 THEN destroyCalls + 1 ELSE 2
  /\ cEvent' = [type |-> "destroy", sends |-> 0,
                error |-> PersistenceDestroy(persistence).error]
  /\ UNCHANGED << ydoc, updateTimeout, timerUpdate, emitted, windowDeltas, joinCalls,
                  awarenessCalls >>
  /\ UNCHANGED presenceVars
  /\ UNCHANGED relayVars
  /\ UNCHANGED overlapVars
  /\ UNCHANGED heightVars
  /\ UNCHANGED << doc, workers, pages, processingPages, requests, workerPromises,
                  lastRun, cleanRuns >>

\* the pagination of an editor that may be unmounted at any moment
EditorNext ==
  \/ UpdatePages
  \/ \E k \in 1..MaxWorkers : WorkerMessage(k)
  \/ \E k \in 1..MaxWorkers : WorkerError(k)
  \/ \E k \in 1..MaxWorkers : WorkerTimeout(k)
  \/ AllSettled
  \/ Cleanup

\* dispatchTransaction: view.updateState(newState) puts the edited document
\* in the view (and arms the 150 ms timer that calls updatePages); the edit
\* adds an element at the end
DispatchTransaction ==
  /\ ~terminated
  /\ Len(doc) < MaxElems
  /\ \E e \in { x \in ElementKinds : x.len = 2800 } : doc' = Append(doc, e)
  /\ UNCHANGED << relayVars, clientVars, heightVars >>
  /\ UNCHANGED overlapVars
  /\ UNCHANGED << workers, terminated, pages, processingPages, requests, workerPromises,
                  lastRun, cleanRuns >>

\* worker k - 1 has been handed a chunk by the later call, whose promise
\* executor assigned worker.onmessage and worker.onerror anew
HandlersReassigned(k) == k \in 1..Len(laterRequests)

\* the answers worker k - 1 has to post once the later call has posted its
\* chunk: the answer to the first run's request if that has not been
\* delivered, then the answer to the new one
OwedAfterPost(k, newRequest) ==
  (IF k <= Len(workerPromises) /\ workerPromises[k].status # "fulfilled"
     THEN << WorkerPages(requests[k]) >>
     ELSE << >>)
  \o << WorkerPages(newRequest) >>

\* updatePages called when no other call has been made while a run awaited
\* its workers
FirstUpdatePages == laterOutcome = "none" /\ UpdatePages

\* updatePages called while the run before it awaits its workers (so the pool
\* is not empty): the empty page list for an empty document, else one
\* request per worker, posted to the same workers
UpdatePagesWhileAwaiting ==
  /\ ~terminated
  /\ workerPromises # << >>
  /\ laterOutcome = "none"
  /\ UNCHANGED << relayVars, clientVars, heightVars >>
  /\ UNCHANGED << doc, workers, terminated, requests, workerPromises >>
  /\ IF Len(AllElements(doc)) = 0
       THEN /\ pages' = << >>
            /\ processingPages' = FALSE
            /\ lastRun' = [path |-> "empty", rejected |-> 0]
            /\ cleanRuns' = CleanRun
            /\ UNCHANGED overlapVars
       ELSE /\ processingPages' = TRUE
            /\ laterRequests' = ChunkRequests(AllElements(doc), workers)
            /\ laterPromises' = [k \in 1..Len(laterRequests') |-> Pending]
            /\ owed' = [k \in 1..Len(laterRequests') |-> OwedAfterPost(k, laterRequests'[k])]
            /\ laterOutcome' = "pending"
            /\ UNCHANGED << pages, lastRun, cleanRuns >>

\* the first run's onmessage handler runs: only while the worker still has it
FirstRunMessage(k) == ~HandlersReassigned(k) /\ WorkerMessage(k)

\* worker k - 1 posts its next answer: the onmessage handler assigned by the
\* later call resolves that call's promise with it (the answers after it
\* find the promise settled and change nothing: they are not kept)
LaterMessage(k) ==
  /\ ~terminated
  /\ k \in 1..Len(owed)
  /\ owed[k] # << >>
  /\ laterPromises[k].status = "pending"
  /\ owed' = [owed EXCEPT ![k] = << >>]
  /\ laterPromises' =
       [laterPromises EXCEPT ![k] = [status |-> "fulfilled", value |-> Head(owed[k])]]
  /\ UNCHANGED << relayVars, clientVars, heightVars >>
  /\ UNCHANGED << laterRequests, laterOutcome >>
  /\ UNCHANGED pagerVars

\* the 10 s timer of the later call's request k rejects its promise (the
\* answers that come after it change nothing: they are not kept)
LaterTimeout(k) ==
  /\ k \in 1..Len(laterPromises)
  /\ laterPromises[k].status = "pending"
  /\ laterPromises' = [laterPromises EXCEPT ![k] = [status |-> "rejected"]]
  /\ owed' = [owed EXCEPT ![k] = << >>]
  /\ UNCHANGED << relayVars, clientVars, heightVars >>
  /\ UNCHANGED << laterRequests, laterOutcome >>
  /\ UNCHANGED pagerVars

\* the later call after its Promise.allSettled: combine, sort, publish
\* (answers that arrive afterwards find settled promises and are dropped)
LaterAllSettled ==
  /\ laterPromises # << >>
  /\ \A k \in 1..Len(laterPromises) : laterPromises[k].status # "pending"
  /\ pages' = FinalPages(laterPromises)
  /\ processingPages' = FALSE
  /\ lastRun' = [path |-> "parallel",
                 rejected |-> Cardinality({ k \in 1..Len(laterPromises) :
                                              laterPromises[k].status = "rejected" })]
  /\ cleanRuns' = IF lastRun'.rejected = 0 THEN CleanRun ELSE 0
  /\ laterOutcome' = IF lastRun'.rejected = 0 THEN "clean" ELSE "failed"
  /\ laterPromises' = << >>
  /\ owed' = << >>
  /\ UNCHANGED << relayVars, clientVars, heightVars >>
  /\ UNCHANGED << doc, workers, terminated, requests, workerPromises, laterRequests >>

\* an editor whose document changes and whose updatePages may be called once
\* more while a run awaits its workers
OverlapNext ==
  \/ DispatchTransaction
  \/ FirstUpdatePages
  \/ UpdatePagesWhileAwaiting
  \/ \E k \in 1..MaxWorkers : FirstRunMessage(k)
  \/ \E k \in 1..MaxWorkers : WorkerTimeout(k)
  \/ AllSettled
  \/ \E k \in 1..MaxWorkers : LaterMessage(k)
  \/ \E k \in 1..MaxWorkers : LaterTimeout(k)
  \/ LaterAllSettled

\* one element is measured by both heuristics: by the worker as
\* { type, content } and by the main thread as a node
Measure(type, len) ==
  /\ measured' = [type |-> type, len |-> len,
                  worker |-> WorkerElementHeight([type |-> type, len |-> len]),
                  main |-> calculateElementHeight([type |-> type, len |-> len])]
  /\ UNCHANGED colored
  /\ UNCHANGED << relayVars, clientVars, pagerVars, overlapVars >>

HeightsNext == \E t \in ElementTypes, n \in 0..MaxTextLen : Measure(t, n)

PagerNext ==
  \/ UpdatePages
  \/ \E k \in 1..MaxWorkers : WorkerMessage(k)
  \/ \E k \in 1..MaxWorkers : WorkerError(k)
  \/ \E k \in 1..MaxWorkers : WorkerTimeout(k)
  \/ AllSettled

\* ------------------------------------------------------------------------
\* Specifications
\* ------------------------------------------------------------------------

Init == RelayInit /\ ClientInit /\ PagerRest

Next == RelayNext

Spec == Init /\ [][Next]_vars

SpecMalformed == Init /\ [][RelayNextMalformed]_vars

SpecClient == Init /\ [][ClientNext]_vars

SpecPresence == Init /\ [][PresenceNext]_vars

SpecSends == Init /\ [][SendsNext]_vars

SpecLink == Init /\ [][LinkNext]_vars

\* the provider with its socket connecting whenever it can and its timer
\* firing when due
SpecClientFair ==
  Init /\ [][ClientNext]_vars /\ WF_vars(SocketConnect) /\ WF_vars(UpdateTimeout)

InitPager == RelayInit /\ ClientInit /\ PagerInit

SpecPager == InitPager /\ [][PagerNext]_vars

\* the editor mounted on a document of plain action lines
InitPagerPlain == RelayInit /\ ClientInit /\ PagerInitPlain

\* the pagination with every pending request's 10 s timer firing when due
\* and the run resuming once all its promises have settled
SpecPagerFair ==
  /\ InitPagerPlain
  /\ [][PagerNext]_vars
  /\ \A k \in 1..MaxWorkers : WF_vars(WorkerTimeout(k))
  /\ WF_vars(AllSettled)

SpecEditor == InitPagerPlain /\ [][EditorNext]_vars

SpecOverlap == InitPagerPlain /\ [][OverlapNext]_vars

SpecHeights == Init /\ [][HeightsNext]_vars

SpecColors == Init /\ [][ColorsNext]_vars

\* ------------------------------------------------------------------------
\* Relay properties
\* ------------------------------------------------------------------------

\* r is a connected session that the registry lists in room d
InRoom(r, d) == conn[r] = "open" /\ r \in RoomSet(d)

\* the events of one type among those the last handler emitted to r
SentOfType(r, t) == SelectSeq(sent[r], LAMBDA m : m.type = t)

\* C2: a yjs-update received from a session that joined room d (its
\* socket.documentId) is delivered to exactly the other sessions of room d,
\* whatever documentId the payload carries.
C2_DeltaOnlyToOwnRoom ==
  (handled.type = "yjs-update" /\ sockDocumentId[handled.from] # Undefined) =>
    \A r \in Sessions :
      IF r # handled.from /\ InRoom(r, sockDocumentId[handled.from])
        THEN sent[r] = << [type |-> "yjs-update", update |-> handled.update] >>
        ELSE sent[r] = << >>

\* C3: the registry has an entry for document d exactly when some session id
\* is in that room's set; no empty room is stored.
C3_RoomExistsIffNonEmpty ==
  \A d \in DocIds :
    /\ HasRoom(d) <=> (\E s \in Sessions : s \in RoomSet(d))
    /\ HasRoom(d) => documentRooms[d] # {}

\* C3 witness: the last member of doc1 has disconnected and the room entry is
\* gone while another room is still stored.
C3_Witness ==
  /\ handled.type = "disconnect"
  /\ handled.documentId = "doc1"
  /\ ~HasRoom("doc1")
  /\ HasRoom("doc2")

\* C4: when B joins room d, every other session in d gets exactly one
\* user-joined carrying B's socket id, userId and userInfo; B gets none, and
\* no session outside d gets one.
C4_UserJoinedToRoomPeers ==
  handled.type = "join-document" =>
    \A r \in Sessions :
      IF r # handled.from /\ InRoom(r, handled.documentId)
        THEN sent[r] = << [type |-> "user-joined", socketId |-> handled.from,
                           userId |-> handled.userId, userInfo |-> handled.userInfo] >>
        ELSE SentOfType(r, "user-joined") = << >>

\* C4 witness: s2 joined doc1 where s1 already was, while s3 sits in doc2.
C4_Witness ==
  /\ handled.type = "join-document"
  /\ handled.from = "s2"
  /\ handled.documentId = "doc1"
  /\ InRoom("s1", "doc1")
  /\ InRoom("s3", "doc2") /\ ~InRoom("s3", "doc1")
  /\ Len(sent["s1"]) = 1
  /\ sent["s3"] = << >>

\* the users of the current-users reply of the last join-document
CurrentUsersReply == SentOfType(handled.from, "current-users")[1].users

\* C5: the current-users snapshot sent to a joining session never has an
\* entry for the joining session itself.
C5_SnapshotExcludesSelf ==
  handled.type = "join-document" =>
    /\ Len(SentOfType(handled.from, "current-users")) = 1
    /\ \A e \in CurrentUsersReply : e.socketId # handled.from

\* C5 witness: a session that is already a member of the room joins it again
\* and gets a non-empty snapshot.
C5_Witness ==
  /\ handled.type = "join-document"
  /\ Truthy(handled.userId)
  /\ Cardinality(RoomSet(handled.documentId)) = 3
  /\ CurrentUsersReply # {}

\* C6: the current-users snapshot has exactly one entry for each other
\* session currently in the room, carrying that session's stored presence
\* info.
C6_SnapshotListsAllPeers ==
  handled.type = "join-document" =>
    /\ { e.socketId : e \in CurrentUsersReply } =
         { r \in Sessions : r # handled.from /\ InRoom(r, handled.documentId) }
    /\ \A e \in CurrentUsersReply :
         /\ e.socketId \in DOMAIN userAwareness
         /\ e.userInfo = userAwareness[e.socketId]
    /\ \A e1, e2 \in CurrentUsersReply : e1.socketId = e2.socketId => e1 = e2

\* ------------------------------------------------------------------------
\* Provider properties
\* ------------------------------------------------------------------------

\* the yjs-update events the provider has emitted so far
EmittedUpdates == SelectSeq(emitted, LAMBDA m : m.type = "yjs-update")

\* every update of the last window came from a local edit
WindowIsLocal == \A i \in 1..Len(windowDeltas) : windowDeltas[i].origin = "local"

\* C7 (as claimed): the local deltas of one throttle window cause exactly one
\* yjs-update send, at the window's expiry, and none before it.
C7_OneSendPerWindow ==
  /\ cEvent.type = "timeout" => cEvent.sends = 1
  /\ cEvent.type = "update" => cEvent.sends = 0 /\ updateTimeout # Undefined

\* C7 (amended): the deltas of one throttle window cause no send before the
\* window's expiry, and at the expiry exactly one send if the socket is
\* connected then and none if it is not; the expiry clears the timer so that
\* the next delta opens a new window.
C7_OneSendPerWindowIfConnected ==
  /\ cEvent.type = "timeout" =>
       /\ cEvent.sends = (IF connected THEN 1 ELSE 0)
       /\ Len(windowDeltas) >= 1
       /\ updateTimeout = Undefined
  /\ cEvent.type = "update" => cEvent.sends = 0 /\ updateTimeout # Undefined

\* C7 witness: three local deltas have produced two sends; the window that
\* just expired held one delta only.
C7_Witness ==
  /\ cEvent.type = "timeout"
  /\ cEvent.sends = 1
  /\ ydoc = Deltas
  /\ WindowIsLocal
  /\ Len(windowDeltas) = 1
  /\ Len(EmittedUpdates) = 2

\* C8: the delta sent at the expiry of a window of local deltas is the latest
\* delta that arrived in that window.
C8_SendsLatestDelta ==
  (cEvent.type = "timeout" /\ cEvent.sends = 1 /\ WindowIsLocal) =>
    emitted[Len(emitted)].update = windowDeltas[Len(windowDeltas)].update

\* ------------------------------------------------------------------------
\* Pagination properties
\* ------------------------------------------------------------------------

\* the elements of a page list, pages in index order
RECURSIVE Flatten(_)
Flatten(ps) == IF ps = << >> THEN << >> ELSE ps[1] \o Flatten(Tail(ps))

\* the sum of the computed heights of a page's elements
RECURSIVE PageHeightSum(_)
PageHeightSum(page) ==
  IF page = << >> THEN 0 ELSE calculateElementHeight(page[1]) + PageHeightSum(Tail(page))

Budget == PAGE_HEIGHT * HeightScale

Oversized(e) == calculateElementHeight(e) > Budget

\* every page the model holds: the published ones and those of each
\* fulfilled chunk promise
PublishedPages == { pages[i] : i \in 1..Len(pages) }

ChunkPages(k) == { workerPromises[k].value[i].elements : i \in 1..Len(workerPromises[k].value) }

Fulfilled == { k \in 1..Len(workerPromises) : workerPromises[k].status = "fulfilled" }

AllPages == PublishedPages \cup UNION { ChunkPages(k) : k \in Fulfilled }

\* C1: a parallel run in which no worker failed or timed out publishes every
\* element exactly once and in document order.
C1_ParallelKeepsOrder ==
  (lastRun.path = "parallel" /\ lastRun.rejected = 0) => Flatten(pages) = AllElements(doc)

\* C9: an element higher than the page budget is alone on its page, in the
\* fallback's result and in every chunk's pages, and no element of the input
\* is dropped from either.
C9_OversizedAlone ==
  /\ \A page \in AllPages :
       \A i \in 1..Len(page) : Oversized(page[i]) => Len(page) = 1
  /\ lastRun.path = "fallback" => Flatten(pages) = AllElements(doc)
  /\ \A k \in Fulfilled :
       Flatten([i \in 1..Len(workerPromises[k].value) |-> workerPromises[k].value[i].elements])
         = requests[k].elements

\* C9 witness: the fallback put an oversized element on a page of its own
\* between two other pages.
C9_Witness ==
  /\ lastRun.path = "fallback"
  /\ \E i \in 2..(Len(pages) - 1) : Len(pages[i]) = 1 /\ Oversized(pages[i][1])

\* C10: every page is non-empty, and holds more than the page budget only if
\* it holds a single element.
C10_PageWithinBudget ==
  \A page \in AllPages :
    /\ Len(page) >= 1
    /\ PageHeightSum(page) <= Budget \/ Len(page) = 1

\* C10 witness: a worker's chunk gave a page of several elements within the
\* budget next to a page of one oversized element.
C10_Witness ==
  \E k \in Fulfilled :
    /\ \E page \in ChunkPages(k) : Len(page) >= 2 /\ PageHeightSum(page) <= Budget
    /\ \E page \in ChunkPages(k) : Len(page) = 1 /\ PageHeightSum(page) > Budget



\* C11: a run of the pagination in which no worker failed, coming after
\* another such run over the same document, budget and pool, publishes the
\* page list that run published: the result does not depend on what an
\* earlier run published or left behind.
C11_SameInputSamePages == [][cleanRuns' = 2 => pages' = pages]_vars

\* C11 witness: a second parallel run without a failure has published
\* several pages.
C11_Witness ==
  /\ cleanRuns = 2
  /\ lastRun.path = "parallel"
  /\ lastRun.rejected = 0
  /\ Len(pages) >= 2

\* the number of chunks a parallel run over the document dispatches
NumChunks == Len(ChunkRequests(AllElements(doc), workers))

\* C12: when every chunk of a parallel run failed or timed out, the published
\* page list is the sequential fallback's result for the whole document and
\* holds all its elements.
C12_AllFailedFallsBack ==
  (lastRun.path = "parallel" /\ lastRun.rejected = NumChunks) =>
    /\ pages = FallbackPages(doc)
    /\ Len(Flatten(pages)) = Len(AllElements(doc))

\* the elements s holds, as a set
Range(s) == { s[i] : i \in 1..Len(s) }

\* the step in which a parallel run with failed and with successful chunks
\* publishes
PartialFailurePublishes ==
  /\ workerPromises # << >>
  /\ workerPromises' = << >>
  /\ Fulfilled # {}
  /\ Fulfilled # 1..Len(workerPromises)

\* C13: when some chunks of a parallel run failed and some succeeded, the
\* published list holds every element of every successful chunk exactly once
\* and no element of a failed chunk, every page a successful chunk computed is
\* published as computed, and the run stays on the parallel path.
C13_PartialFailureKeepsSiblings ==
  [][PartialFailurePublishes =>
       /\ Range(Flatten(pages')) = UNION { Range(requests[k].elements) : k \in Fulfilled }
       /\ Len(Flatten(pages')) = Cardinality(Range(Flatten(pages')))
       /\ \A k \in Fulfilled : ChunkPages(k) \subseteq { pages'[i] : i \in 1..Len(pages') }
       /\ lastRun'.path = "parallel"]_vars

\* C13 witness: of three chunks one failed, and the pages of the other two
\* were published.
C13_Witness ==
  /\ lastRun.path = "parallel"
  /\ NumChunks = 3
  /\ lastRun.rejected = 1
  /\ Len(pages) >= 2

\* ------------------------------------------------------------------------
\* Relay properties: disconnect, malformed joins, presence deltas, order
\* ------------------------------------------------------------------------

\* C14: when a session that joined a room (its socket.documentId) disconnects,
\* every session remaining in that room is sent exactly one user-left with the
\* leaver's session id and userId and nobody else is sent anything, the leaver
\* is in neither that room's set nor the presence table, and its connection
\* is closed.
C14_DisconnectAnnounced ==
  (handled.type = "disconnect" /\ handled.documentId # Undefined) =>
    /\ \A r \in Sessions :
         IF r # handled.from /\ InRoom(r, handled.documentId)
           THEN sent[r] = << [type |-> "user-left", socketId |-> handled.from,
                              userId |-> handled.userId] >>
           ELSE sent[r] = << >>
    /\ handled.from \notin RoomSet(handled.documentId)
    /\ handled.from \notin DOMAIN userAwareness
    /\ conn[handled.from] = "closed"

\* C15: a session whose disconnect has been processed is in no room's set
\* and has no presence entry, whatever it joined before.
C15_NoResidueAfterDisconnect ==
  \A s \in Sessions :
    conn[s] = "closed" =>
      /\ \A d \in AllDocIds : s \notin RoomSet(d)
      /\ s \notin DOMAIN userAwareness

\* C16: a join-document whose documentId or userId is empty changes neither
\* the registry nor the presence table nor the session's state, and makes the
\* relay send nothing.
C16_MalformedJoinIgnored ==
  [][(handled'.type = "join-document"
        /\ ~(Truthy(handled'.documentId) /\ Truthy(handled'.userId))) =>
       /\ documentRooms' = documentRooms
       /\ userAwareness' = userAwareness
       /\ sockDocumentId' = sockDocumentId
       /\ sockUserId' = sockUserId
       /\ conn' = conn
       /\ sent' = NoSent]_vars

\* C17: an awareness-update received from a session that joined room d (its
\* socket.documentId) is delivered, tagged with the sender's session id, to
\* exactly the other sessions of room d.
C17_PresenceDeltaToOwnRoom ==
  (handled.type = "awareness-update" /\ sockDocumentId[handled.from] # Undefined) =>
    \A r \in Sessions :
      IF r # handled.from /\ InRoom(r, sockDocumentId[handled.from])
        THEN sent[r] = << [type |-> "awareness-update", socketId |-> handled.from,
                           awareness |-> handled.awareness] >>
        ELSE sent[r] = << >>

JoinEmitted == \E i \in 1..Len(emitted) : emitted[i].type = "join-document"

\* C19: if joinDocument is called and the socket connects and then stays
\* connected, a join-document is eventually emitted, also when the call came
\* before the socket had connected.
C19_JoinEventuallySent ==
  (<>(joinCalls > 0) /\ <>[]connected) => <>JoinEmitted

C21_SingleChunkIsFallback ==
  (lastRun.path = "parallel" /\ workers = 1 /\ lastRun.rejected = 0) =>
    pages = FallbackPages(doc)

\* C21 witness: the single worker's run published three pages.
C21_Witness ==
  /\ lastRun.path = "parallel"
  /\ workers = 1
  /\ lastRun.rejected = 0
  /\ Len(pages) = 3

\* the pages of chunk k of the document, as its worker computes them
PagesOfChunk(k) == WorkerPages(ChunkRequests(AllElements(doc), workers)[k])

\* the chunks' pages taken in chunk order, chunk 1 first
RECURSIVE PagesInChunkOrder(_)
PagesInChunkOrder(k) ==
  IF k > NumChunks THEN << >> ELSE PagesOfChunk(k) \o PagesInChunkOrder(k + 1)

\* the elements of each page of a list of worker pages
ElementsOfPages(ps) == [p \in 1..Len(ps) |-> ps[p].elements]

\* C22: the page list a parallel run publishes when every worker answered is
\* the chunks' pages combined in chunk order and then sorted, in whatever
\* order the answers arrived.
C22_ArrivalOrderIrrelevant ==
  [][(workerPromises # << >> /\ workerPromises' = << >> /\ lastRun'.rejected = 0) =>
       pages' = ElementsOfPages(SortByPageIndex(PagesInChunkOrder(1)))]_vars

\* C22 witness: a run of three workers that all answered has published three
\* pages, and in the next run the answer to the third chunk has arrived while
\* the first two are awaited.
C22_Witness ==
  /\ Len(workerPromises) = 3
  /\ workerPromises[3].status = "fulfilled"
  /\ workerPromises[1].status = "pending"
  /\ workerPromises[2].status = "pending"
  /\ lastRun.path = "parallel"
  /\ lastRun.rejected = 0
  /\ Len(pages) = 3

\* the chunks are contiguous, in index order, and cover the elements once
ChunksCoverInOrder ==
  /\ requests[1].startIndex = 0
  /\ \A k \in 1..(Len(requests) - 1) :
       requests[k + 1].startIndex = requests[k].startIndex + Len(requests[k].elements)
  /\ Flatten([k \in 1..Len(requests) |-> requests[k].elements]) = AllElements(doc)

\* C23 (as claimed): the dispatched chunks cover the elements once and in
\* order, there is one non-empty chunk per worker, all chunks but the last
\* have the same size and the last is at least as large.
C23_OneChunkPerWorkerLastLargest ==
  requests # << >> =>
    /\ ChunksCoverInOrder
    /\ Len(requests) = workers
    /\ \A k \in 1..Len(requests) : Len(requests[k].elements) >= 1
    /\ \A k \in 1..(Len(requests) - 1) :
         /\ Len(requests[k].elements) = Len(requests[1].elements)
         /\ Len(requests[Len(requests)].elements) >= Len(requests[k].elements)

\* C23 (amended): the dispatched chunks cover the elements once and in order,
\* no chunk is empty and no worker gets two, all chunks but the last have
\* ceil(N / W) elements and the last has the remainder, at most as many.
C23_ChunksOfCeilSize ==
  requests # << >> =>
    /\ ChunksCoverInOrder
    /\ Len(requests) <= workers
    /\ \A k \in 1..Len(requests) :
         /\ Len(requests[k].elements) >= 1
         /\ requests[k].worker = k - 1
    /\ \A k \in 1..(Len(requests) - 1) :
         Len(requests[k].elements) = (Len(AllElements(doc)) + workers - 1) \div workers
    /\ Len(requests[Len(requests)].elements)
         <= (Len(AllElements(doc)) + workers - 1) \div workers

\* C23 witness: three elements were split for two workers into a chunk of two
\* and a chunk of one.
C23_Witness ==
  /\ Len(requests) = 2
  /\ workers = 2
  /\ Len(requests[1].elements) = 2
  /\ Len(requests[2].elements) = 1

\* C24: with an empty pool a run publishes the sequential fallback's result
\* and dispatches nothing; with an empty document a run publishes the empty
\* page list and dispatches nothing.
C24_EarlyExits ==
  /\ workers = 0 =>
       /\ requests = << >> /\ workerPromises = << >>
       /\ lastRun.path \in {"none", "fallback"}
       /\ lastRun.path = "fallback" => pages = FallbackPages(doc)
  /\ lastRun.path = "fallback" => workers = 0
  /\ AllElements(doc) = << >> =>
       /\ requests = << >> /\ workerPromises = << >>
       /\ pages = << >>
       /\ ~processingPages
  /\ lastRun.path = "empty" => (AllElements(doc) = << >> /\ workers > 0)

\* C24 witness: the fallback published two pages for an empty pool.
C24_Witness ==
  /\ workers = 0
  /\ lastRun.path = "fallback"
  /\ Len(pages) = 2

\* C25: a parallel run that has dispatched its chunks ends: whether or not
\* the workers answer, every promise settles, the run publishes on the
\* parallel path and the processing flag is cleared.
C25_ParallelRunEnds ==
  (workerPromises # << >>) ~>
    (workerPromises = << >> /\ ~processingPages /\ lastRun.path = "parallel")

\* C25 witness: a run in which one of three requests was rejected has
\* published the pages of the other two and cleared the flag.
C25_Witness ==
  /\ lastRun.path = "parallel"
  /\ lastRun.rejected = 1
  /\ NumChunks = 3
  /\ Len(pages) = 2
  /\ ~processingPages
  /\ workerPromises = << >>

\* ------------------------------------------------------------------------
\* Provider properties: presence map, incoming deltas
\* ------------------------------------------------------------------------

\* C26: an incoming awareness-update from session s sets the entry of key s
\* in the presence map to the received payload and leaves the other entries
\* alone; an incoming user-left for s removes the entry of s and leaves the
\* others alone; after either, the onAwarenessUpdate callback, if the caller
\* has set one, is called with the map as it then is.
C26_PresenceMapFollowsEvents ==
  [][/\ cEvent'.type = "awareness-update" =>
          /\ DOMAIN providerAwareness' = DOMAIN providerAwareness \cup {cEvent'.socketId}
          /\ providerAwareness'[cEvent'.socketId] = cEvent'.awareness
          /\ \A k \in DOMAIN providerAwareness \ {cEvent'.socketId} :
               providerAwareness'[k] = providerAwareness[k]
          /\ onAwarenessUpdate =>
               cEvent'.notified = [called |-> TRUE, map |-> providerAwareness']
     /\ cEvent'.type = "user-left" =>
          /\ DOMAIN providerAwareness' = DOMAIN providerAwareness \ {cEvent'.socketId}
          /\ \A k \in DOMAIN providerAwareness' : providerAwareness'[k] = providerAwareness[k]
          /\ onAwarenessUpdate =>
               cEvent'.notified = [called |-> TRUE, map |-> providerAwareness']]_vars

\* C26 witness: with the callback set, the user-left of p1 removed p1's entry
\* and the callback got the map that still holds p2's.
C26_Witness ==
  /\ cEvent.type = "user-left"
  /\ cEvent.socketId = "p1"
  /\ onAwarenessUpdate
  /\ DOMAIN providerAwareness = {"p2"}
  /\ cEvent.notified = [called |-> TRUE, map |-> providerAwareness]

\* C27: an incoming yjs-update is in the local document at the end of the
\* step that received it, whether or not the outbound throttle timer was
\* pending.
C27_IncomingAppliedAtOnce ==
  cEvent.type = "yjs-update" => cEvent.update \in ydoc

\* C27 witness: a remote update arrived and was applied while the timer that a
\* local edit had started was pending.
C27_Witness ==
  /\ cEvent.type = "yjs-update"
  /\ updateTimeout # Undefined
  /\ Len(windowDeltas) = 2
  /\ windowDeltas[1].origin = "local"
  /\ windowDeltas[2] = [update |-> cEvent.update, origin |-> "remote"]
  /\ cEvent.update \in ydoc

\* ------------------------------------------------------------------------
\* Relay properties: re-join, one room per session, frame of the deltas
\* ------------------------------------------------------------------------

\* C28: a join-document from a session whose last join was for the same
\* document leaves the registry (its rooms and their member sets) as it was,
\* and makes the session's presence entry the userId and userInfo of this
\* join.
C28_RejoinOverwritesPresence ==
  [][(handled'.type = "join-document"
        /\ sockDocumentId[handled'.from] = handled'.documentId) =>
       /\ documentRooms' = documentRooms
       /\ DOMAIN userAwareness' = DOMAIN userAwareness
       /\ \A r \in DOMAIN userAwareness \ {handled'.from} :
            userAwareness'[r] = userAwareness[r]
       /\ DOMAIN userAwareness'[handled'.from] = DOMAIN handled'.userInfo \cup {"userId"}
       /\ \A key \in DOMAIN handled'.userInfo :
            userAwareness'[handled'.from][key] = handled'.userInfo[key]
       /\ "userId" \notin DOMAIN handled'.userInfo =>
            userAwareness'[handled'.from].userId = handled'.userId]_vars

\* C28 witness: s1, in doc1 with s2, has joined doc1 again as another user.
C28_Witness ==
  /\ handled.type = "join-document"
  /\ handled.from = "s1"
  /\ handled.documentId = "doc1"
  /\ handled.userInfo = [name |-> "A"]
  /\ handled.userId = ""
  /\ RoomSet("doc1") = {"s1", "s2"}
  /\ userAwareness["s1"] = [name |-> "A", userId |-> ""]
  /\ SentOfType("s2", "user-joined") # << >>

\* C29: every session id is in the member set of at most one room of the
\* registry.
C29_AtMostOneRoom ==
  \A s \in Sessions : Cardinality({ d \in AllDocIds : s \in RoomSet(d) }) <= 1

\* C30: handling a yjs-update or an awareness-update changes neither the
\* registry nor the presence table; a step that changes either handles a
\* join-document or a disconnect.
C30_DeltasLeaveStateAlone ==
  [][/\ handled'.type \in {"yjs-update", "awareness-update"} =>
          /\ documentRooms' = documentRooms
          /\ userAwareness' = userAwareness
     /\ (documentRooms' # documentRooms \/ userAwareness' # userAwareness) =>
          handled'.type \in {"join-document", "disconnect"}]_vars

\* C30 witness: an awareness-update of s1 was forwarded to s2 with both rooms
\* and two presence entries in place.
C30_Witness ==
  /\ handled.type = "awareness-update"
  /\ handled.from = "s1"
  /\ sent["s2"] # << >>
  /\ HasRoom("doc1") /\ HasRoom("doc2")
  /\ DOMAIN userAwareness = {"s1", "s2", "s3"}

\* C31: a yjs-update or an awareness-update received from a connection that
\* has joined no document is delivered to no session.
C31_NoRelayBeforeJoin ==
  (handled.type \in {"yjs-update", "awareness-update"}
     /\ sockDocumentId[handled.from] = Undefined) =>
    \A r \in Sessions : sent[r] = << >>

\* ------------------------------------------------------------------------
\* Teardown
\* ------------------------------------------------------------------------

\* a pagination run publishes: its await of Promise.allSettled returns and
\* it goes on to setPages
Publishes == workerPromises # << >> /\ workerPromises' = << >>

\* C32: the cleanup terminates the workers and closes the provider's socket,
\* and once it has run no pagination run that was in flight publishes a page
\* list.
C32_CleanupAbandonsRuns ==
  [][/\ (~terminated /\ terminated') => (socketClosed' /\ ~connected')
     /\ terminated => ~Publishes]_vars

\* the events the provider emits in this step
NewlyEmitted == SubSeq(emitted', Len(emitted) + 1, Len(emitted'))

\* C33: once destroy has been called, no step of the provider emits a
\* yjs-update, whether or not a throttle timer was pending at that moment.
C33_NoDeltaAfterDestroy ==
  [][destroyCalls > 0 =>
       \A i \in 1..Len(NewlyEmitted) : NewlyEmitted[i].type # "yjs-update"]_vars

\* C33 witness: the only throttle window the provider ever had was opened by
\* an update received while connected, destroy was called, and the timer of
\* that window has fired since, sending nothing.
C33_Witness ==
  /\ destroyCalls > 0
  /\ cEvent.type = "timeout"
  /\ cEvent.sends = 0
  /\ ydoc = {"d1"}
  /\ windowDeltas = << [update |-> "d1", origin |-> "remote"] >>

\* ------------------------------------------------------------------------
\* Overlapping pagination runs
\* ------------------------------------------------------------------------

\* the page list a run publishes when every request is answered with the
\* pages of that request
PagesOfOwnAnswers(reqs) ==
  FinalPages([k \in 1..Len(reqs) |-> [status |-> "fulfilled", value |-> WorkerPages(reqs[k])]])

\* promise k of ps is fulfilled in this step
FulfilledNow(ps, psNext, k) ==
  /\ ps[k].status = "pending"
  /\ Len(psNext) >= k
  /\ psNext[k].status = "fulfilled"

\* C34: with a second run dispatched while the first awaits its workers,
\* every chunk promise of either run is fulfilled with the pages of its own
\* request, and the page list published when both runs have settled (the
\* second without a rejected promise) is that of the second run's elements.
C34_OverlappingRunsKeptApart ==
  [][/\ \A k \in 1..Len(workerPromises) :
          FulfilledNow(workerPromises, workerPromises', k) =>
            workerPromises'[k].value = WorkerPages(requests[k])
     /\ \A k \in 1..Len(laterPromises) :
          FulfilledNow(laterPromises, laterPromises', k) =>
            laterPromises'[k].value = WorkerPages(laterRequests[k])
     /\ (/\ laterOutcome' = "clean"
         /\ workerPromises' = << >>
         /\ pages' # pages) =>
          pages' = PagesOfOwnAnswers(laterRequests')]_vars

\* ------------------------------------------------------------------------
\* Provider: origin of the deltas sent
\* ------------------------------------------------------------------------

\* C35: handling an incoming yjs-update starts no throttle timer and emits
\* nothing, and every yjs-update the provider emits carries an update of a
\* local edit.
C35_RemoteDeltaNotEchoed ==
  [][/\ cEvent'.type = "yjs-update" =>
          (updateTimeout' = updateTimeout /\ emitted' = emitted)
     /\ \A i \in 1..Len(NewlyEmitted) :
          NewlyEmitted[i].type = "yjs-update" =>
            \E w \in 1..Len(windowDeltas) :
              /\ windowDeltas[w].update = NewlyEmitted[i].update
              /\ windowDeltas[w].origin = "local"]_vars

\* ------------------------------------------------------------------------
\* Relay: broadcast groups and registry
\* ------------------------------------------------------------------------

\* C36: for every document the adapter room the relay broadcasts to has the
\* same members as the registry's room set.
C36_BroadcastGroupIsRoomSet ==
  \A d \in AllDocIds : ioRooms[d] = RoomSet(d)

\* ------------------------------------------------------------------------
\* Provider: nothing is sent while disconnected
\* ------------------------------------------------------------------------

\* C37: a step taken while this.connected is false emits nothing; a timer
\* that fires then is cleared and drops its update, which no later step
\* sends: a yjs-update is only ever emitted by the timer callback, for the
\* update its timer holds, and a reconnect emits nothing.
C37_NothingSentWhileDisconnected ==
  [][/\ ~connected => emitted' = emitted
     /\ cEvent'.type = "timeout" => (updateTimeout' = Undefined /\ timerUpdate' = Undefined)
     /\ cEvent'.type = "connect" => emitted' = emitted
     /\ \A i \in 1..Len(NewlyEmitted) :
          NewlyEmitted[i].type = "yjs-update" =>
            (cEvent'.type = "timeout" /\ NewlyEmitted[i].update = timerUpdate)]_vars

\* C37 witness: the timer of d1 fired while the provider was disconnected,
\* d1 was never sent although join-document and awareness-update were (the
\* provider is connected), and the local edit d2 has opened a new window.
C37_Witness ==
  /\ connected
  /\ cEvent.type = "update"
  /\ ydoc = {"d1", "d2"}
  /\ timerUpdate = "d2"
  /\ windowDeltas = << [update |-> "d2", origin |-> "local"] >>
  /\ \A i \in 1..Len(emitted) : emitted[i].type # "yjs-update"
  /\ \E i \in 1..Len(emitted) : emitted[i].type = "join-document"
  /\ \E i \in 1..Len(emitted) : emitted[i].type = "awareness-update"
  /\ joinCalls = 2
  /\ Len(SelectSeq(emitted, LAMBDA m : m.type = "join-document")) = 1

\* ------------------------------------------------------------------------
\* Relay and provider: presence after user-left
\* ------------------------------------------------------------------------

\* C38: the provider's presence map has no entry for a session whose
\* user-left it has processed.
C38_NoEntryAfterUserLeft ==
  \A s \in leftSeen : s \notin DOMAIN providerAwareness

\* C38 witness: the provider, holding entries for s2 and s3, has processed
\* the user-left of s2: the entry of s2 is gone and that of s3 is kept.
C38_Witness ==
  /\ cEvent.type = "user-left"
  /\ cEvent.socketId = "s2"
  /\ cEvent.had
  /\ "s2" \in leftSeen
  /\ DOMAIN providerAwareness = {"s3"}
  /\ conn["s2"] = "closed"

\* ------------------------------------------------------------------------
\* The two height heuristics
\* ------------------------------------------------------------------------

\* 24 * ceil(len / 60) * m + 12 with m = 1.5, 1.2 or 1, times HeightScale
HeightFormula(type, len) ==
  LET lines == IF len % 60 = 0 THEN len \div 60 ELSE len \div 60 + 1
  IN  (IF type = "scene_heading" THEN 360 * lines
       ELSE IF type = "character" THEN 288 * lines
       ELSE 240 * lines) + 12 * HeightScale

\* C39: for every element type and text length, zero included, the worker's
\* heuristic and the main thread's give the same height, which is
\* 24 * ceil(len / 60) * m + 12 and so at least 12.
C39_SameHeightBothPaths ==
  measured.type # "none" =>
    /\ measured.worker = measured.main
    /\ measured.main = HeightFormula(measured.type, measured.len)
    /\ measured.main >= 12 * HeightScale

\* C39 witness: a character element without text was measured at 12 by both.
C39_Witness ==
  /\ measured.type = "character"
  /\ measured.len = 0
  /\ measured.worker = 12 * HeightScale
  /\ measured.main = 12 * HeightScale

\* ------------------------------------------------------------------------
\* generateUserColor
\* ------------------------------------------------------------------------

\* the hash is outside the signed 32-bit range
OutsideInt32(h) == h[1] < 0 - 32768 \/ h[1] >= 32768

\* C40: for every userId, the empty one and those whose hash leaves the
\* 32-bit range included, the index is in 0..9 and the colour is an entry of
\* the palette; a second call with the same userId returns the same colour.
C40_ColorAlwaysInPalette ==
  /\ [](colored.calls > 0 =>
          /\ colored.index \in 0..9
          /\ \E i \in 1..10 : colored.color = colors[i])
  /\ [][(colored.calls > 0 /\ colored'.codes = colored.codes) =>
          colored'.color = colored.color]_vars

\* C40 witness: a userId whose hash is negative and outside the 32-bit range
\* was coloured twice in a row.
C40_Witness ==
  /\ colored.calls = 2
  /\ Len(colored.codes) = MaxIdLen
  /\ OutsideInt32(colored.hash)
  /\ colored.hash[1] < 0
  /\ colored.index \in 0..9

====
